---- MODULE Spec2Model ----
(***************************************************************************)
(* Model of ignite-rs_derive (src/ignite-rs_derive/src/lib.rs): the        *)
(* IgniteObj derive macro.  The macro runs get_type_id and get_schema_id   *)
(* when a type is defined and generates WritableType::write/size and       *)
(* ReadableType::read_unwrapped for it.  Strings are sequences of code     *)
(* points, byte streams are sequences of 0..255, i32 values are integers   *)
(* in MinI32..MaxI32.                                                      *)
(***************************************************************************)
EXTENDS Integers, Sequences, FiniteSets, TLC

VARIABLES
    overflow_checks, \* build profile of the macro crate: TRUE = overflow-checks on (dev)
    value,           \* argument of string_to_java_hashcode
    hres,            \* its outcome
    input_attrs,     \* DeriveInput.attrs of the type being defined
    input_ident,     \* DeriveInput.ident
    tres,            \* outcome of get_type_id
    sres,            \* outcome of get_schema_id
    type_id,         \* #type_id spliced into the generated code
    schema_id,       \* #schema_id spliced into the generated code
    named,           \* fields.named: the declared fields, each [name, ty]
    self,            \* the instance being written: one value per field
    cap,             \* how many bytes the writer accepts before it fails
    wpc,             \* position of write(): "start", "fields", "done"
    wi,              \* index of the next field write() encodes
    fields,          \* the Vec<u8> `fields` of write()
    schema,          \* the Vec<u8> `schema` of write()
    writer,          \* bytes the writer has received
    wres,            \* outcome of write()
    reader,          \* the bytes of the stream that is read
    rpos,            \* how many of them the reader has consumed
    rstart,          \* rpos when read_unwrapped was entered
    type_code,       \* the type code passed to read_unwrapped
    rpc,             \* position of the read: "idle", "ready", "version", "flags",
                     \* "type_id", "header", "fields", "schema", "done"
    ri,              \* index of the next field read_unwrapped decodes
    out,             \* the field values decoded so far (_id, _name, ...)
    codec_calls,     \* how many times a field codec's read was invoked
    rres             \* outcome of the read

macroVars == <<overflow_checks, value, hres, input_attrs, input_ident, tres, sres>>
typeVars == <<type_id, schema_id, named, self, cap>>
writeVars == <<wpc, wi, fields, schema, writer, wres>>
readVars == <<reader, rpos, rstart, type_code, rpc, ri, out, codec_calls, rres>>
vars == <<macroVars, typeVars, writeVars, readVars>>

\* ---------------------------------------------------------------- bounds
MaxLen == 7          \* longest string fed to string_to_java_hashcode
MaxAttrs == 2        \* most attributes on one type declaration
MaxFields == 2       \* most fields of a type
FlagBits == 5        \* the flags read from a stream range over 0 .. 2^FlagBits - 1

\* ------------------------------------------------------- i32 arithmetic
MaxI32 == 2147483647
MinI32 == -2147483647 - 1

\* i32 `+` overflows (panics when overflow-checks are on)
add_overflows(a, b) ==
    \/ a >= 0 /\ b >= 0 /\ a > MaxI32 - b
    \/ a < 0 /\ b < 0 /\ a < MinI32 - b

\* two's-complement wrapping i32 addition
wrapping_add(a, b) ==
    IF a >= 0 /\ b >= 0 /\ a > MaxI32 - b THEN (a + MinI32) + (b + MinI32)
    ELSE IF a < 0 /\ b < 0 /\ a < MinI32 - b THEN (a - MinI32) + (b - MinI32)
    ELSE a + b

\* i32::overflowing_mul(a, b).0 for b >= 0, by doubling (arithmetic mod 2^32);
\* the comparisons with MinI32 only make TLC evaluate a value before it is passed on
RECURSIVE overflowing_mul(_, _)
overflowing_mul(a, b) ==
    IF b = 0 THEN 0
    ELSE LET twice == wrapping_add(a, a)
             rest == IF twice >= MinI32 THEN overflowing_mul(twice, b \div 2) ELSE 0
         IN  IF b % 2 = 1 THEN wrapping_add(rest, a) ELSE rest

\* ------------------------------------------------------------- outcomes
Returned(v) == [tag |-> "Ok", v |-> v]
Panicked == [tag |-> "Panic", v |-> 0]
NotRun == [tag |-> "NotRun", v |-> 0]

\* ------------------------------------------- string_to_java_hashcode
\* `a + b` on i32 as the build compiles it: a panic when overflow-checks are
\* on and the sum leaves the i32 range, the wrapped sum otherwise
plain_add(checks, a, b) ==
    IF checks /\ add_overflows(a, b) THEN Panicked ELSE Returned(wrapping_add(a, b))

\* the loop of string_to_java_hashcode from character i on, hash so far
RECURSIVE hash_loop(_, _, _, _)
hash_loop(checks, s, i, hash) ==
    IF i > Len(s) THEN Returned(hash)
    ELSE LET step == plain_add(checks, overflowing_mul(hash, 31), s[i])
         IN  IF step.tag = "Panic" THEN Panicked
             ELSE hash_loop(checks, s, i + 1, step.v)

string_to_java_hashcode(checks, s) == hash_loop(checks, s, 1, 0)

\* ------------------------------------------------------------- strings
Chars == {65, 97, 1114111}   \* 'A', 'a', U+10FFFF

RECURSIVE StringsUpTo(_)
StringsUpTo(n) ==
    IF n = 0 THEN {<<>>}
    ELSE LET shorter == StringsUpTo(n - 1)
         IN  shorter \cup {Append(s, c) : s \in {t \in shorter : Len(t) = n - 1}, c \in Chars}

Str_Person == <<80, 101, 114, 115, 111, 110>>
Str_User == <<85, 115, 101, 114>>
Str_Useryxnwysnz == <<85, 115, 101, 114, 121, 120, 110, 119, 121, 115, 110, 122>>
TypeNames == {Str_Person, Str_User, Str_Useryxnwysnz}

\* StringHash of the specification (section 4.1), which is also what the
\* runtime crate's ignite_rs::utils::string_to_java_hashcode computes for the
\* generated code: acc = acc * 31 + codepoint, wrapping at every step
RECURSIVE StringHashFrom(_, _, _)
StringHashFrom(s, i, acc) ==
    IF i > Len(s) THEN acc
    ELSE LET next == wrapping_add(overflowing_mul(acc, 31), s[i])
         IN  IF next >= MinI32 THEN StringHashFrom(s, i + 1, next) ELSE 0

StringHash(s) == StringHashFrom(s, 1, 0)

\* ----------------------------------------------------------- get_type_id
\* an attribute as syn presents it: its path, what parse_meta makes of it,
\* the kind of literal of a name-value form and the digits of an integer literal
Attr(path, meta, lit, digits) == [path |-> path, meta |-> meta, lit |-> lit, digits |-> digits]

IntLits == { <<0>>, <<4, 2>>,
             <<2, 1, 4, 7, 4, 8, 3, 6, 4, 7>>,     \* i32::MAX
             <<2, 1, 4, 7, 4, 8, 3, 6, 4, 8>> }    \* i32::MAX + 1

AttrForms ==
    { Attr("type_id", "NameValue", "Int", d) : d \in IntLits }     \* #[type_id = 42]
    \cup { Attr("type_id", "NameValue", "Str", <<>>),              \* #[type_id = "42"]
           Attr("type_id", "Path", "none", <<>>),                  \* #[type_id]
           Attr("type_id", "List", "none", <<>>),                  \* #[type_id(42)]
           Attr("type_id", "Err", "none", <<>>),                   \* #[type_id = -42]: parse_meta fails
           Attr("other", "NameValue", "Int", <<7>>) }              \* #[other = 7]

RECURSIVE AttrListsUpTo(_)
AttrListsUpTo(n) ==
    IF n = 0 THEN {<<>>}
    ELSE LET shorter == AttrListsUpTo(n - 1)
         IN  shorter \cup {Append(l, a) : l \in {t \in shorter : Len(t) = n - 1}, a \in AttrForms}

ParseOk(v) == [ok |-> TRUE, v |-> v]
ParseErr == [ok |-> FALSE, v |-> 0]

\* LitInt::base10_parse::<i32>: the decimal value, an error outside i32
RECURSIVE base10_parse_from(_, _, _)
base10_parse_from(digits, i, acc) ==
    IF i > Len(digits) THEN ParseOk(acc)
    ELSE IF acc > (MaxI32 - digits[i]) \div 10 THEN ParseErr
    ELSE base10_parse_from(digits, i + 1, acc * 10 + digits[i])

base10_parse(digits) == base10_parse_from(digits, 1, 0)

\* the nested `if let`s of get_type_id on one attribute: the override it yields, if any
attr_value(attr) ==
    IF attr.path = "type_id" /\ attr.meta = "NameValue" /\ attr.lit = "Int"
    THEN base10_parse(attr.digits)
    ELSE ParseErr

\* the `for attr in &input.attrs` loop from attribute i on, then the fallback
RECURSIVE get_type_id_from(_, _, _, _)
get_type_id_from(checks, attrs, ident, i) ==
    IF i > Len(attrs) THEN string_to_java_hashcode(checks, ident)
    ELSE IF attr_value(attrs[i]).ok THEN Returned(attr_value(attrs[i]).v)
    ELSE get_type_id_from(checks, attrs, ident, i + 1)

get_type_id(checks, attrs, ident) == get_type_id_from(checks, attrs, ident, 1)

\* ---------------------------------------------------------- get_schema_id
FNV1_OFFSET_BASIS == -2128831035    \* 0x811C_9DC5_u32 as i32
FNV1_PRIME == 16777619              \* 0x0100_0193

\* a ^ b on the low n bits
RECURSIVE BitXor(_, _, _)
BitXor(a, b, n) ==
    IF n = 0 THEN 0
    ELSE (((a % 2) + (b % 2)) % 2) + 2 * BitXor(a \div 2, b \div 2, n - 1)

\* a & b on the low n bits
RECURSIVE BitAnd(_, _, _)
BitAnd(a, b, n) ==
    IF n = 0 THEN 0
    ELSE ((a % 2) * (b % 2)) + 2 * BitAnd(a \div 2, b \div 2, n - 1)

\* a | b on the low n bits
RECURSIVE BitOr(_, _, _)
BitOr(a, b, n) ==
    IF n = 0 THEN 0
    ELSE (IF a % 2 = 1 \/ b % 2 = 1 THEN 1 ELSE 0) + 2 * BitOr(a \div 2, b \div 2, n - 1)

\* (hash >> 8*k) & 0xFF on an i32 (>> is the arithmetic shift)
byte_of(hash, k) ==
    IF k = 0 THEN hash % 256
    ELSE IF k = 1 THEN (hash \div 256) % 256
    ELSE IF k = 2 THEN (hash \div 65536) % 256
    ELSE (hash \div 16777216) % 256

\* res ^= byte; res = res.overflowing_mul(FNV1_PRIME).0
fnv_step(res, byte) ==
    LET x == (res - (res % 256)) + BitXor(res % 256, byte, 8)
    IN  IF x >= MinI32 THEN overflowing_mul(x, FNV1_PRIME) ELSE 0

\* the closure of the fold in get_schema_id
fnv_fold(acc, hash) ==
    LET r0 == fnv_step(acc, byte_of(hash, 0))
        r1 == IF r0 >= MinI32 THEN fnv_step(r0, byte_of(hash, 1)) ELSE 0
        r2 == IF r1 >= MinI32 THEN fnv_step(r1, byte_of(hash, 2)) ELSE 0
    IN  IF r2 >= MinI32 THEN fnv_step(r2, byte_of(hash, 3)) ELSE 0

\* get_schema_id over the field names from field i on; the hash of a name may panic
RECURSIVE get_schema_id_from(_, _, _, _)
get_schema_id_from(checks, names, i, acc) ==
    IF i > Len(names) THEN Returned(acc)
    ELSE LET hash == string_to_java_hashcode(checks, names[i])
         IN  IF hash.tag = "Panic" THEN Panicked
             ELSE LET next == fnv_fold(acc, hash.v)
                  IN  IF next >= MinI32 THEN get_schema_id_from(checks, names, i + 1, next)
                      ELSE Panicked

get_schema_id(checks, names) == get_schema_id_from(checks, names, 1, FNV1_OFFSET_BASIS)

\* ------------------------------------------------- ignite_rs::protocol
COMPLEX_OBJ_HEADER_LEN == 24
TypeCode_Byte == 1
TypeCode_Short == 2
TypeCode_Null == 101
TypeCode_ComplexObj == 103
FLAG_USER_TYPE == 1
FLAG_HAS_SCHEMA == 2
FLAG_COMPACT_FOOTER == 4
FLAG_OFFSET_ONE_BYTE == 8
FLAG_OFFSET_TWO_BYTES == 16

\* little-endian encodings
write_u8(v) == <<v>>
write_u16(v) == <<v % 256, (v \div 256) % 256>>
write_i32(v) == <<byte_of(v, 0), byte_of(v, 1), byte_of(v, 2), byte_of(v, 3)>>

\* little-endian decodings of the bytes of s that start after position p
u16_at(s, p) == s[p + 1] + 256 * s[p + 2]
i16_at(s, p) == s[p + 1] + 256 * (IF s[p + 2] >= 128 THEN s[p + 2] - 256 ELSE s[p + 2])
i32_at(s, p) ==
    s[p + 1] + 256 * s[p + 2] + 65536 * s[p + 3]
        + 16777216 * (IF s[p + 4] >= 128 THEN s[p + 4] - 256 ELSE s[p + 4])

\* ignite_rs::utils::bytes_to_java_hashcode: the polynomial hash over bytes
RECURSIVE bytes_hash_from(_, _, _)
bytes_hash_from(bytes, i, acc) ==
    IF i > Len(bytes) THEN acc
    ELSE LET b == IF bytes[i] >= 128 THEN bytes[i] - 256 ELSE bytes[i]
             next == wrapping_add(overflowing_mul(acc, 31), b)
         IN  IF next >= MinI32 THEN bytes_hash_from(bytes, i + 1, next) ELSE 0

bytes_to_java_hashcode(bytes) == bytes_hash_from(bytes, 1, 1)

\* ------------------------------------------------------ value codecs
\* The codecs of the field types are collaborators.  A field value is
\* [tag, v]: "Some" is an ordinary value of the field's type, "Null" a value
\* that its codec writes as the null type code, "Bad" a value whose write fails.
SomeVal(v) == [tag |-> "Some", v |-> v]
NullVal == [tag |-> "Null", v |-> 0]
BadVal == [tag |-> "Bad", v |-> 0]

ValuesOf(ty) ==
    (IF ty = "u8" THEN {SomeVal(7), SomeVal(200)} ELSE {SomeVal(-2), SomeVal(300)})
        \cup {NullVal, BadVal}

\* <field>.write(&mut fields): whether it succeeds and the bytes it appends
field_write(ty, val) ==
    IF val.tag = "Bad" THEN [ok |-> FALSE, bytes |-> <<>>]
    ELSE IF val.tag = "Null" THEN [ok |-> TRUE, bytes |-> write_u8(TypeCode_Null)]
    ELSE IF ty = "u8" THEN [ok |-> TRUE, bytes |-> write_u8(TypeCode_Byte) \o write_u8(val.v)]
    ELSE [ok |-> TRUE, bytes |-> write_u8(TypeCode_Short) \o write_u16(val.v)]

\* <field>.size()
field_size(ty, val) ==
    IF val.tag # "Some" THEN 1
    ELSE IF ty = "u8" THEN 2
    ELSE 3

\* --------------------------------------------------------- the writer
\* writer.write_all(bytes) on a writer that accepts `cap` bytes in all: the
\* bytes that still fit are taken, and the call fails unless all of them fit
Min(a, b) == IF a <= b THEN a ELSE b
write_all(w, bytes) ==
    [ok |-> Len(w) + Len(bytes) <= cap,
     w |-> w \o SubSeq(bytes, 1, Min(Len(bytes), cap - Len(w)))]

IoOk == [tag |-> "Ok"]
IoErr == [tag |-> "Err"]
IoNone == [tag |-> "NotRun"]

\* ------------------------------------------ generated WritableType::write
\* variant: the schema flag is left out
written_flags_user_type == FLAG_USER_TYPE

\* the flags write() puts in the header
written_flags == BitOr(FLAG_USER_TYPE, FLAG_HAS_SCHEMA, 16)

\* variant: the offset is counted from the start of the payload
field_offset_in_payload(fieldsBuf) == Len(fieldsBuf)

\* the field offset write() puts in the schema entry of the next field
field_offset(fieldsBuf) == COMPLEX_OBJ_HEADER_LEN + Len(fieldsBuf)

\* variant: the length leaves out the schema
total_length_no_schema(fieldsBuf, schemaBuf) == COMPLEX_OBJ_HEADER_LEN + Len(fieldsBuf)

\* the length write() puts in the header
total_length(fieldsBuf, schemaBuf) == COMPLEX_OBJ_HEADER_LEN + Len(fieldsBuf) + Len(schemaBuf)

\* the schema offset write() puts in the header
schema_offset(fieldsBuf) == COMPLEX_OBJ_HEADER_LEN + Len(fieldsBuf)

\* variant: nothing reaches the writer before the fields are encoded
write_begin_buffers_only ==
    /\ wpc = "start"
    /\ wpc' = "fields"
    /\ fields' = <<>>
    /\ schema' = <<>>
    /\ wi' = 1
    /\ UNCHANGED <<writer, wres>>
    /\ UNCHANGED <<macroVars, typeVars, readVars>>

\* type code, version, flags, type_id; then the two buffers are created
write_begin ==
    /\ wpc = "start"
    /\ LET r == write_all(writer, write_u8(TypeCode_ComplexObj) \o write_u8(1)
                                  \o write_u16(written_flags) \o write_i32(type_id))
       IN  /\ writer' = r.w
           /\ IF r.ok
              THEN /\ wpc' = "fields"
                   /\ wres' = wres
              ELSE /\ wpc' = "done"
                   /\ wres' = IoErr
    /\ fields' = <<>>
    /\ schema' = <<>>
    /\ wi' = 1
    /\ UNCHANGED <<macroVars, typeVars, readVars>>

\* one expansion of #fields_schema: field id, field offset, the field itself
write_field ==
    /\ wpc = "fields"
    /\ wi <= Len(named)
    /\ LET r == field_write(named[wi].ty, self[wi])
       IN  /\ schema' = schema \o write_i32(StringHash(named[wi].name))
                               \o write_i32(field_offset(fields))
           /\ fields' = fields \o r.bytes
           /\ IF r.ok
              THEN /\ wpc' = wpc
                   /\ wres' = wres
              ELSE /\ wpc' = "done"
                   /\ wres' = IoErr
    /\ wi' = wi + 1
    /\ UNCHANGED <<macroVars, typeVars, writer, readVars>>

\* hash code, length, schema id, schema offset, object fields, schema
write_end ==
    /\ wpc = "fields"
    /\ wi > Len(named)
    /\ LET r == write_all(writer, write_i32(bytes_to_java_hashcode(fields))
                                  \o write_i32(total_length(fields, schema))
                                  \o write_i32(schema_id)
                                  \o write_i32(schema_offset(fields))
                                  \o fields \o schema)
       IN  /\ writer' = r.w
           /\ wres' = IF r.ok THEN IoOk ELSE IoErr
    /\ wpc' = "done"
    /\ UNCHANGED <<macroVars, typeVars, wi, fields, schema, readVars>>

\* variant: the field offset of the schema entry is not counted
RECURSIVE size_from_id_only(_, _, _)
size_from_id_only(decl, inst, i) ==
    IF i > Len(decl) THEN 0
    ELSE field_size(decl[i].ty, inst[i]) + 4 + size_from_id_only(decl, inst, i + 1)

\* the expansion of #fields_schema_size over the fields from i on
RECURSIVE size_from(_, _, _)
size_from(decl, inst, i) ==
    IF i > Len(decl) THEN 0
    ELSE field_size(decl[i].ty, inst[i]) + 4 + 4 + size_from(decl, inst, i + 1)

\* generated WritableType::size
size(decl, inst) == COMPLEX_OBJ_HEADER_LEN + size_from(decl, inst, 1)

\* ------------------------------------------------------------ results
\* outcome of a read: "Some" is Ok(Some(instance)) with the field values in
\* val, "None" is Ok(None), "Err" carries the message (and, for the type
\* mismatch, the two identifiers formatted into it), "Panic" is an unwinding
Res(tag, msg, expected, received, val) ==
    [tag |-> tag, msg |-> msg, expected |-> expected, received |-> received, val |-> val]
ResNone == Res("NotRun", "", 0, 0, <<>>)
OkSome(val) == Res("Some", "", 0, 0, val)
OkNone == Res("None", "", 0, 0, <<>>)
ErrMsg(msg) == Res("Err", msg, 0, 0, <<>>)
ErrIo == ErrMsg("io")
ErrTypeId(expected, received) ==
    Res("Err", "Type ID mismatch: expected {}, got {}", expected, received, <<>>)
ResPanic == Res("Panic", "called Option::unwrap() on a None value", 0, 0, <<>>)

\* ------------------------------------------------------------ the types
Str_id == <<105, 100>>
Str_name == <<110, 97, 109, 101>>
Str_x == <<120>>
Field(name, ty) == [name |-> name, ty |-> ty]
FieldDecls == {Field(Str_id, "u8"), Field(Str_name, "i16"), Field(Str_x, "u8")}

RECURSIVE FieldListsUpTo(_)
FieldListsUpTo(n) ==
    IF n = 0 THEN {<<>>}
    ELSE LET shorter == FieldListsUpTo(n - 1)
         IN  shorter \cup
             {Append(l, f) : l \in {t \in shorter : Len(t) = n - 1},
                             f \in FieldDecls}

DistinctNames(l) == \A i, j \in 1..Len(l) : i # j => l[i].name # l[j].name
NamesOf(l) == [i \in 1..Len(l) |-> l[i].name]

Instances(l) ==
    {inst \in [1..Len(l) -> UNION {ValuesOf(t) : t \in {"u8", "i16"}}] :
        \A i \in 1..Len(l) : inst[i] \in ValuesOf(l[i].ty)}

\* the declarations whose type id the codec is generated with
TypeAttrs == {<<>>, <<Attr("type_id", "NameValue", "Int", <<4, 2>>)>>}

Caps == {3, 20, 1000}

ReadIdle ==
    /\ reader = <<>> /\ rpos = 0 /\ rstart = 0 /\ type_code = 0 /\ rpc = "idle"
    /\ ri = 0 /\ out = <<>> /\ codec_calls = 0 /\ rres = ResNone

CodecIdle ==
    /\ type_id = 0 /\ schema_id = 0 /\ named = <<>> /\ self = <<>> /\ cap = 0
    /\ wpc = "off" /\ wi = 0 /\ fields = <<>> /\ schema = <<>> /\ writer = <<>>
    /\ wres = IoNone
    /\ ReadIdle

\* --------------------------------------------------- reading value codecs
KnownTypeCodes == {TypeCode_Byte, TypeCode_Short, TypeCode_Null, TypeCode_ComplexObj}

\* <ty>::read(reader) on the bytes of s after position p: the type code, then
\* the value; [tag, v, pos] with tag "Some", "None" or "Err"
field_read(ty, s, p) ==
    IF p + 1 > Len(s) THEN [tag |-> "Err", v |-> 0, pos |-> Len(s)]
    ELSE IF s[p + 1] \notin KnownTypeCodes THEN [tag |-> "Err", v |-> 0, pos |-> p + 1]
    ELSE IF s[p + 1] = TypeCode_Null THEN [tag |-> "None", v |-> 0, pos |-> p + 1]
    ELSE IF ty = "u8" /\ s[p + 1] = TypeCode_Byte
    THEN IF p + 2 > Len(s) THEN [tag |-> "Err", v |-> 0, pos |-> Len(s)]
         ELSE [tag |-> "Some", v |-> s[p + 2], pos |-> p + 2]
    ELSE IF ty = "i16" /\ s[p + 1] = TypeCode_Short
    THEN IF p + 3 > Len(s) THEN [tag |-> "Err", v |-> 0, pos |-> Len(s)]
         ELSE [tag |-> "Some", v |-> i16_at(s, p + 1), pos |-> p + 3]
    ELSE [tag |-> "Err", v |-> 0, pos |-> p + 1]

\* ------------------------------------------------------------ the streams
RECURSIVE Pow2(_)
Pow2(n) == IF n = 0 THEN 1 ELSE 2 * Pow2(n - 1)
Flags == 0..(Pow2(FlagBits) - 1)

\* the bytes w of a written object with another type code, other flags and
\* another type identifier and, when junk, with other values in the four
\* header fields after the type identifier and in the schema entries
Stream(w, tc, fl, tid, junk) ==
    [i \in 1..Len(w) |->
        IF i = 1 THEN tc
        ELSE IF i \in 3..4 THEN write_u16(fl)[i - 2]
        ELSE IF i \in 5..8 THEN write_i32(tid)[i - 4]
        ELSE IF junk /\ i \in 9..24 THEN 171
        ELSE IF junk /\ i > i32_at(w, 20) THEN 205
        ELSE w[i]]

\* a type identifier other than the one of the type
OtherTypeId == IF type_id = 42 THEN StringHash(Str_User) ELSE 42

\* where a stream may end early
CutPoints(w) == {n \in {0, 1, 2, 4, 8, 24, Len(w) - 1} : n < Len(w)}

\* what a peer may send in place of the written object w
Streams(w) ==
    {Stream(w, TypeCode_ComplexObj, fl, tid, FALSE) :
        fl \in Flags, tid \in {type_id, OtherTypeId}}
    \cup {Stream(w, TypeCode_ComplexObj, fl, tid, TRUE) :
        fl \in {FLAG_HAS_SCHEMA, written_flags}, tid \in {type_id, OtherTypeId}}
    \cup {Stream(w, tc, written_flags, type_id, junk) :
        tc \in {TypeCode_Null, TypeCode_Byte, 0}, junk \in BOOLEAN}
    \cup {SubSeq(w, 1, n) : n \in CutPoints(w)}
    \cup {w \o w}

\* ----------------------------------------------------- ReadableType::read
\* a stream arrives
receive ==
    /\ wpc = "done"
    /\ wres.tag = "Ok"
    /\ rpc = "idle"
    /\ reader' \in Streams(writer)
    /\ rpc' = "ready"
    /\ UNCHANGED <<rpos, rstart, type_code, ri, out, codec_calls, rres>>
    /\ UNCHANGED <<macroVars, typeVars, writeVars>>

\* the caller, ReadableType::read: the type code byte, then read_unwrapped
read ==
    /\ \/ rpc = "ready"
       \/ rpc = "done" /\ rres.tag \in {"Some", "None"} /\ rpos < Len(reader)
    /\ IF rpos + 1 > Len(reader)
       THEN /\ rres' = ErrIo
            /\ rpc' = "done"
            /\ rpos' = Len(reader)
            /\ UNCHANGED <<type_code, rstart>>
       ELSE /\ rpos' = rpos + 1
            /\ rstart' = rpos + 1
            /\ type_code' = reader[rpos + 1]
            /\ IF reader[rpos + 1] \in KnownTypeCodes
               THEN rpc' = "version" /\ rres' = ResNone
               ELSE rpc' = "done" /\ rres' = ErrMsg("Invalid type code")
    /\ ri' = 1
    /\ out' = <<>>
    /\ codec_calls' = 0
    /\ UNCHANGED reader
    /\ UNCHANGED <<macroVars, typeVars, writeVars>>

\* ---------------------------------- generated ReadableType::read_unwrapped
\* a read of n bytes fails at the end of the stream
can_read(n) == rpos + n <= Len(reader)

\* the failed read of a protocol value: the io error is returned
io_failure ==
    /\ rres' = ErrIo
    /\ rpc' = "done"
    /\ rpos' = Len(reader)

\* the number of i32 values read and dropped after the type identifier
skipped_header_values == 4

\* variant: only the field identifier of a schema entry is read
schema_entry_len_id_only == Len(write_i32(0))

\* the number of bytes of one schema entry, read as an i64
schema_entry_len == 8

\* variant: the two-byte offset flag is not checked
flags_check_one_byte_only(flags) ==
    IF BitAnd(flags, FLAG_HAS_SCHEMA, 16) = 0 THEN "Serialized object schema expected!"
    ELSE IF BitAnd(flags, FLAG_COMPACT_FOOTER, 16) # 0 THEN "Compact footer is not supported!"
    ELSE IF BitAnd(flags, FLAG_OFFSET_ONE_BYTE, 16) # 0 THEN "Schema offset=4 is expected!"
    ELSE ""

\* variant: the compact footer is checked before the schema flag
flags_check_compact_first(flags) ==
    IF BitAnd(flags, FLAG_COMPACT_FOOTER, 16) # 0 THEN "Compact footer is not supported!"
    ELSE IF BitAnd(flags, FLAG_HAS_SCHEMA, 16) = 0 THEN "Serialized object schema expected!"
    ELSE IF BitAnd(flags, FLAG_OFFSET_ONE_BYTE, 16) # 0
              \/ BitAnd(flags, FLAG_OFFSET_TWO_BYTES, 16) # 0
    THEN "Schema offset=4 is expected!"
    ELSE ""

\* the three checks of the flags: the error message, "" when they pass
flags_check(flags) ==
    IF BitAnd(flags, FLAG_HAS_SCHEMA, 16) = 0 THEN "Serialized object schema expected!"
    ELSE IF BitAnd(flags, FLAG_COMPACT_FOOTER, 16) # 0 THEN "Compact footer is not supported!"
    ELSE IF BitAnd(flags, FLAG_OFFSET_ONE_BYTE, 16) # 0
              \/ BitAnd(flags, FLAG_OFFSET_TWO_BYTES, 16) # 0
    THEN "Schema offset=4 is expected!"
    ELSE ""

\* variant: the identifier is compared with the schema id
type_id_mismatch_schema_id(received_type_id) == received_type_id # schema_id

\* the check of the type identifier read from the stream
type_id_mismatch(received_type_id) == received_type_id # type_id

\* variant: the version is read before the type code is matched
read_unwrapped_version_first ==
    /\ rpc = "version"
    /\ IF can_read(1)
       THEN /\ rpos' = rpos + 1
            /\ IF type_code = TypeCode_Null
               THEN rres' = OkNone /\ rpc' = "done"
               ELSE rres' = rres /\ rpc' = "flags"
       ELSE io_failure
    /\ UNCHANGED <<reader, rstart, type_code, ri, out, codec_calls>>
    /\ UNCHANGED <<macroVars, typeVars, writeVars>>

\* match type_code: Null is None; otherwise the version is read and skipped
read_unwrapped_version ==
    /\ rpc = "version"
    /\ IF type_code = TypeCode_Null
       THEN /\ rres' = OkNone
            /\ rpc' = "done"
            /\ rpos' = rpos
       ELSE IF can_read(1)
       THEN /\ rpos' = rpos + 1
            /\ rpc' = "flags"
            /\ rres' = rres
       ELSE io_failure
    /\ UNCHANGED <<reader, rstart, type_code, ri, out, codec_calls>>
    /\ UNCHANGED <<macroVars, typeVars, writeVars>>

\* variant: a type code other than that of a complex object is refused
read_unwrapped_flags_complex_only ==
    /\ rpc = "flags"
    /\ IF type_code # TypeCode_ComplexObj
       THEN rpc' = "done" /\ rres' = ErrMsg("Invalid type code") /\ rpos' = rpos
       ELSE IF can_read(2)
       THEN /\ rpos' = rpos + 2
            /\ IF flags_check(u16_at(reader, rpos)) = ""
               THEN rpc' = "type_id" /\ rres' = rres
               ELSE rpc' = "done" /\ rres' = ErrMsg(flags_check(u16_at(reader, rpos)))
       ELSE io_failure
    /\ UNCHANGED <<reader, rstart, type_code, ri, out, codec_calls>>
    /\ UNCHANGED <<macroVars, typeVars, writeVars>>

\* the flags are read and checked
read_unwrapped_flags ==
    /\ rpc = "flags"
    /\ IF can_read(2)
       THEN /\ rpos' = rpos + 2
            /\ IF flags_check(u16_at(reader, rpos)) = ""
               THEN rpc' = "type_id" /\ rres' = rres
               ELSE rpc' = "done" /\ rres' = ErrMsg(flags_check(u16_at(reader, rpos)))
       ELSE io_failure
    /\ UNCHANGED <<reader, rstart, type_code, ri, out, codec_calls>>
    /\ UNCHANGED <<macroVars, typeVars, writeVars>>

\* the type identifier is read and checked
read_unwrapped_type_id ==
    /\ rpc = "type_id"
    /\ IF can_read(4)
       THEN /\ rpos' = rpos + 4
            /\ IF type_id_mismatch(i32_at(reader, rpos))
               THEN rpc' = "done" /\ rres' = ErrTypeId(type_id, i32_at(reader, rpos))
               ELSE rpc' = "header" /\ rres' = rres
       ELSE io_failure
    /\ UNCHANGED <<reader, rstart, type_code, ri, out, codec_calls>>
    /\ UNCHANGED <<macroVars, typeVars, writeVars>>

\* variant: the schema id read from the header is compared with the type's
read_unwrapped_header_validating ==
    /\ rpc = "header"
    /\ IF can_read(4 * skipped_header_values)
       THEN /\ rpos' = rpos + 4 * skipped_header_values
            /\ IF i32_at(reader, rpos + 8) = schema_id
               THEN rpc' = "fields" /\ rres' = rres
               ELSE rpc' = "done" /\ rres' = ErrMsg("Schema ID mismatch")
       ELSE io_failure
    /\ UNCHANGED <<reader, rstart, type_code, ri, out, codec_calls>>
    /\ UNCHANGED <<macroVars, typeVars, writeVars>>

\* hash code, length, schema id and schema offset are read and dropped
read_unwrapped_header ==
    /\ rpc = "header"
    /\ IF can_read(4 * skipped_header_values)
       THEN /\ rpos' = rpos + 4 * skipped_header_values
            /\ rpc' = "fields"
            /\ rres' = rres
       ELSE io_failure
    /\ UNCHANGED <<reader, rstart, type_code, ri, out, codec_calls>>
    /\ UNCHANGED <<macroVars, typeVars, writeVars>>

\* one expansion of #fields_read: <ty>::read(reader)?.unwrap()
read_unwrapped_field ==
    /\ rpc = "fields"
    /\ ri <= Len(named)
    /\ LET r == field_read(named[ri].ty, reader, rpos)
       IN  /\ rpos' = r.pos
           /\ IF r.tag = "Err" THEN rpc' = "done" /\ rres' = ErrIo /\ out' = out
              ELSE IF r.tag = "None" THEN rpc' = "done" /\ rres' = ResPanic /\ out' = out
              ELSE rpc' = rpc /\ rres' = rres /\ out' = Append(out, SomeVal(r.v))
    /\ ri' = ri + 1
    /\ codec_calls' = codec_calls + 1
    /\ UNCHANGED <<reader, rstart, type_code>>
    /\ UNCHANGED <<macroVars, typeVars, writeVars>>

\* the schema is read and dropped, the instance is built
read_unwrapped_schema ==
    /\ rpc = "fields"
    /\ ri > Len(named)
    /\ IF can_read(schema_entry_len * Len(named))
       THEN /\ rpos' = rpos + schema_entry_len * Len(named)
            /\ rres' = OkSome(out)
            /\ rpc' = "done"
       ELSE io_failure
    /\ UNCHANGED <<reader, rstart, type_code, ri, out, codec_calls>>
    /\ UNCHANGED <<macroVars, typeVars, writeVars>>

\* ================================================================ SpecHash
InitHash ==
    /\ overflow_checks \in BOOLEAN
    /\ value \in StringsUpTo(MaxLen) \cup TypeNames
    /\ hres = NotRun
    /\ input_attrs = <<>>
    /\ input_ident = <<>>
    /\ tres = NotRun
    /\ sres = NotRun
    /\ CodecIdle

Hash ==
    /\ hres.tag = "NotRun"
    /\ hres' = string_to_java_hashcode(overflow_checks, value)
    /\ UNCHANGED <<overflow_checks, value, input_attrs, input_ident, tres, sres>>
    /\ UNCHANGED <<typeVars, writeVars, readVars>>

NextHash == Hash

SpecHash == InitHash /\ [][NextHash]_vars

\* C6: string_to_java_hashcode returns, for every string, the hash computed
\* with wrapping 32-bit arithmetic in the multiplication and in the addition;
\* it never fails on overflow, the empty string hashes to 0 and a
\* two-character string to 31*c1 + c2 wrapped.
C6_WrappingHash ==
    hres.tag # "NotRun" =>
        /\ hres = Returned(StringHash(value))
        /\ (value = <<>> => hres.v = 0)
        /\ (Len(value) = 2 =>
                hres.v = wrapping_add(overflowing_mul(value[1], 31), value[2]))

\* ============================================================== SpecTypeId
InitTypeId ==
    /\ overflow_checks \in BOOLEAN
    /\ input_attrs \in AttrListsUpTo(MaxAttrs)
    /\ input_ident \in TypeNames
    /\ tres = NotRun
    /\ value = <<>>
    /\ hres = NotRun
    /\ sres = NotRun
    /\ CodecIdle

GetTypeId ==
    /\ tres.tag = "NotRun"
    /\ tres' = get_type_id(overflow_checks, input_attrs, input_ident)
    /\ UNCHANGED <<overflow_checks, value, hres, input_attrs, input_ident, sres>>
    /\ UNCHANGED <<typeVars, writeVars, readVars>>

NextTypeId == GetTypeId

SpecTypeId == InitTypeId /\ [][NextTypeId]_vars

\* an override is an attribute named type_id; it is well formed when it is a
\* name-value form whose value is an integer literal within the i32 range
IsOverride(a) == a.path = "type_id"
WellFormed(a) ==
    /\ a.meta = "NameValue" /\ a.lit = "Int"
    /\ base10_parse(a.digits).ok
Overrides(attrs) == {i \in 1..Len(attrs) : IsOverride(attrs[i])}
FirstOverride(attrs) ==
    attrs[CHOOSE i \in Overrides(attrs) : \A j \in Overrides(attrs) : i <= j]

\* C7: a well-formed override is the type identifier verbatim; without an
\* override the identifier is StringHash(type name); a malformed override
\* makes the resolution fail instead of yielding an identifier.
C7_TypeIdResolution ==
    tres.tag # "NotRun" =>
        /\ (Overrides(input_attrs) = {} => tres = Returned(StringHash(input_ident)))
        /\ (/\ Overrides(input_attrs) # {}
            /\ \A i \in Overrides(input_attrs) : WellFormed(input_attrs[i])
            => tres = Returned(base10_parse(FirstOverride(input_attrs).digits).v))
        /\ ((\E i \in Overrides(input_attrs) : ~WellFormed(input_attrs[i]))
            => tres.tag # "Ok")

\* ============================================================ SpecSchemaId
\* the declared fields get_schema_id is run on
SchemaFieldDecls ==
    {Field(n, t) : n \in {Str_id, Str_name, Str_x, Str_Useryxnwysnz}, t \in {"u8", "i16"}}

RECURSIVE SchemaFieldListsUpTo(_)
SchemaFieldListsUpTo(n) ==
    IF n = 0 THEN {<<>>}
    ELSE LET shorter == SchemaFieldListsUpTo(n - 1)
         IN  shorter \cup
             {Append(l, f) : l \in {t \in shorter : Len(t) = n - 1},
                             f \in SchemaFieldDecls}

InitSchemaId ==
    /\ overflow_checks \in BOOLEAN
    /\ named \in {l \in SchemaFieldListsUpTo(MaxFields) : DistinctNames(l)}
    /\ sres = NotRun
    /\ value = <<>> /\ hres = NotRun
    /\ input_attrs = <<>> /\ input_ident = <<>> /\ tres = NotRun
    /\ type_id = 0 /\ schema_id = 0 /\ self = <<>> /\ cap = 0
    /\ wpc = "off" /\ wi = 0 /\ fields = <<>> /\ schema = <<>> /\ writer = <<>>
    /\ wres = IoNone
    /\ ReadIdle

GetSchemaId ==
    /\ sres.tag = "NotRun"
    /\ sres' = get_schema_id(overflow_checks, NamesOf(named))
    /\ UNCHANGED <<overflow_checks, value, hres, input_attrs, input_ident, tres>>
    /\ UNCHANGED <<typeVars, writeVars, readVars>>

NextSchemaId == GetSchemaId

SpecSchemaId == InitSchemaId /\ [][NextSchemaId]_vars

\* the field identifiers of the declared fields, in declaration order
FieldIds(l) == [i \in 1..Len(l) |-> StringHash(l[i].name)]

\* the bytes of the identifiers, each identifier least-significant byte first
RECURSIVE IdBytes(_, _)
IdBytes(ids, k) == IF k = 0 THEN <<>> ELSE IdBytes(ids, k - 1) \o write_i32(ids[k])

\* acc XOR byte on an i32: the bits of the byte that acc has are cleared, the others set
XorByte(acc, byte) ==
    LET common == BitAnd(acc % 256, byte, 8)
    IN  (acc - common) + (byte - common)

\* FNV-1 over bytes from byte i on: acc = acc XOR byte; acc = acc * prime (wrapping)
RECURSIVE Fnv1From(_, _, _)
Fnv1From(bytes, i, acc) ==
    IF i > Len(bytes) THEN acc
    ELSE LET next == overflowing_mul(XorByte(acc, bytes[i]), 16777619)
         IN  IF next >= MinI32 THEN Fnv1From(bytes, i + 1, next) ELSE 0

\* 0x811C9DC5 taken as a signed 32-bit value: 0x811C9DC5 - 2^32
OffsetBasisSigned == (-2147483647 - 1) + 18652613

SchemaIdOf(l) == Fnv1From(IdBytes(FieldIds(l), Len(l)), 1, OffsetBasisSigned)

\* C11: the schema id of every ordered list of field names is the FNV-1 fold,
\* from 0x811C9DC5 as a signed 32-bit value, over the bytes of the field
\* identifiers in declaration order, least-significant byte first; it is a
\* function of the ordered names alone and the offset basis for no fields.
C11_SchemaId ==
    sres.tag # "NotRun" =>
        /\ sres = Returned(SchemaIdOf(named))
        /\ (named = <<>> => sres = Returned(OffsetBasisSigned))

\* ==================================================================== Spec
\* derive_ignite_obj has run on a declaration without panicking; an instance
\* of the type and a writer are given.  The generated code is the same
\* whatever the profile the macro crate was built with.
Init ==
    /\ overflow_checks = FALSE
    /\ value = <<>>
    /\ hres = NotRun
    /\ sres = NotRun
    /\ input_ident = Str_Person
    /\ input_attrs \in TypeAttrs
    /\ named \in {l \in FieldListsUpTo(MaxFields) : DistinctNames(l)}
    /\ tres = get_type_id(overflow_checks, input_attrs, input_ident)
    /\ tres.tag = "Ok"
    /\ type_id = tres.v
    /\ get_schema_id(overflow_checks, NamesOf(named)).tag = "Ok"
    /\ schema_id = get_schema_id(overflow_checks, NamesOf(named)).v
    /\ self \in Instances(named)
    /\ cap \in Caps
    /\ wpc = "start" /\ wi = 0 /\ fields = <<>> /\ schema = <<>> /\ writer = <<>>
    /\ wres = IoNone
    /\ ReadIdle

Next ==
    \/ write_begin \/ write_field \/ write_end
    \/ receive \/ read
    \/ read_unwrapped_version \/ read_unwrapped_flags \/ read_unwrapped_type_id
    \/ read_unwrapped_header \/ read_unwrapped_field \/ read_unwrapped_schema

Spec == Init /\ [][Next]_vars

\* ------------------------------------------------- vocabulary of the claims
\* the bytes the codec of field i writes for the instance
EncodedField(i) == field_write(named[i].ty, self[i]).bytes

\* the field payload of the instance: the encodings of fields 1..k in order
RECURSIVE PayloadUpTo(_)
PayloadUpTo(k) == IF k = 0 THEN <<>> ELSE PayloadUpTo(k - 1) \o EncodedField(k)

Payload == PayloadUpTo(Len(named))

WriteSucceeded == wpc = "done" /\ wres.tag = "Ok"

\* read_unwrapped was entered with the type code and has returned or panicked
DecodeDone == rpc = "done" /\ type_code \in KnownTypeCodes

\* the flags and the type identifier of the header being decoded, once read
FlagsWereRead == type_code # TypeCode_Null /\ Len(reader) >= rstart + 3
FlagsRead == u16_at(reader, rstart + 1)
TypeIdWasRead == FlagsWereRead /\ Len(reader) >= rstart + 7
TypeIdRead == i32_at(reader, rstart + 3)

BitSet(f, bit) == (f \div bit) % 2 = 1
HasSchemaSet(f) == BitSet(f, FLAG_HAS_SCHEMA)
CompactFooterSet(f) == BitSet(f, FLAG_COMPACT_FOOTER)
OffsetOneByteSet(f) == BitSet(f, FLAG_OFFSET_ONE_BYTE)
OffsetTwoBytesSet(f) == BitSet(f, FLAG_OFFSET_TWO_BYTES)
FlagsAcceptable(f) ==
    HasSchemaSet(f) /\ ~CompactFooterSet(f) /\ ~OffsetOneByteSet(f) /\ ~OffsetTwoBytesSet(f)

UnsupportedFeature(r) ==
    r.tag = "Err" /\ r.msg \in {"Compact footer is not supported!", "Schema offset=4 is expected!"}
TypeIdentifierMismatch(r) ==
    r.tag = "Err" /\ r.msg = "Type ID mismatch: expected {}, got {}"

\* C1: decoding the bytes that write() produced for an instance whose fields
\* all encode to non-null values, after the type-code byte and with the same
\* type, returns Some(instance') with instance' equal to the instance field
\* by field.
C1_RoundTrip ==
    (/\ DecodeDone
     /\ reader = writer
     /\ rstart = 1
     /\ \A i \in 1..Len(self) : self[i].tag = "Some")
    => rres = OkSome(self)

C1_Witness ==
    /\ DecodeDone /\ reader = writer /\ rstart = 1
    /\ Len(self) >= 1
    /\ \A i \in 1..Len(self) : self[i].tag = "Some"
    /\ rres.tag = "Some"
    /\ rres.val = self

\* C2: on success, size() equals the number of bytes write() has emitted.
C2_SizeConsistency ==
    WriteSucceeded => size(named, self) = Len(writer)

C2_Witness ==
    /\ WriteSucceeded
    /\ Len(named) >= 1
    /\ size(named, self) = Len(writer)
    /\ Len(writer) > COMPLEX_OBJ_HEADER_LEN

\* C3 as stated: whenever the CompactFooter, OffsetOneByte or OffsetTwoBytes
\* bit is set in the flags, a decode with a non-null type code fails with
\* UnsupportedFeature having consumed only the version and the flags.
C3_Original ==
    (/\ DecodeDone
     /\ FlagsWereRead
     /\ \/ CompactFooterSet(FlagsRead)
        \/ OffsetOneByteSet(FlagsRead)
        \/ OffsetTwoBytesSet(FlagsRead))
    => /\ UnsupportedFeature(rres)
       /\ rpos = rstart + 3

\* C3 amended: the same whenever the HasSchema bit is set as well.
C3_FlagRejection ==
    (/\ DecodeDone
     /\ FlagsWereRead
     /\ HasSchemaSet(FlagsRead)
     /\ \/ CompactFooterSet(FlagsRead)
        \/ OffsetOneByteSet(FlagsRead)
        \/ OffsetTwoBytesSet(FlagsRead))
    => /\ UnsupportedFeature(rres)
       /\ rpos = rstart + 3

C3_Witness ==
    /\ DecodeDone /\ FlagsWereRead
    /\ HasSchemaSet(FlagsRead)
    /\ OffsetTwoBytesSet(FlagsRead) /\ ~OffsetOneByteSet(FlagsRead)
    /\ ~CompactFooterSet(FlagsRead)
    /\ UnsupportedFeature(rres)
    /\ rpos = rstart + 3

\* C4: with acceptable flags, a type identifier in the stream that differs
\* from the type's makes the decode return the type-mismatch error carrying
\* the expected and the received identifier, having read nothing after the
\* identifier and invoked no field codec; equal identifiers never give it.
C4_TypeMismatch ==
    (/\ DecodeDone
     /\ TypeIdWasRead
     /\ FlagsAcceptable(FlagsRead))
    => IF TypeIdRead # type_id
       THEN /\ rres = ErrTypeId(type_id, TypeIdRead)
            /\ rpos = rstart + 7
            /\ codec_calls = 0
       ELSE ~TypeIdentifierMismatch(rres)

C4_Witness ==
    /\ DecodeDone /\ TypeIdWasRead /\ FlagsAcceptable(FlagsRead)
    /\ TypeIdentifierMismatch(rres)
    /\ rres.expected = type_id
    /\ rres.received = OtherTypeId
    /\ rpos = rstart + 7

\* C5: when the codec of a field returns an absent value, the decode returns
\* an error value to its caller instead of terminating abnormally.
C5_MissingFieldIsError ==
    [][(read_unwrapped_field /\ field_read(named[ri].ty, reader, rpos).tag = "None")
         => rres'.tag = "Err"]_vars

\* C8: the k-th entry of the schema footer is (StringHash(name of field k),
\* 24 + the encoded sizes of fields 1..k-1); the first offset is 24, the
\* offsets do not decrease and none exceeds the SchemaOffset of the header.
FooterStart == Len(writer) - 8 * Len(named)
FooterId(k) == i32_at(writer, FooterStart + 8 * (k - 1))
FooterOffset(k) == i32_at(writer, FooterStart + 8 * (k - 1) + 4)

C8_FieldOffsets ==
    WriteSucceeded =>
        /\ \A k \in 1..Len(named) :
            /\ FooterId(k) = StringHash(named[k].name)
            /\ FooterOffset(k) = 24 + Len(PayloadUpTo(k - 1))
            /\ FooterOffset(k) <= i32_at(writer, 20)
        /\ (Len(named) >= 1 => FooterOffset(1) = 24)
        /\ \A k \in 1..(Len(named) - 1) : FooterOffset(k) <= FooterOffset(k + 1)

C8_Witness ==
    /\ WriteSucceeded
    /\ Len(named) >= 2
    /\ FooterOffset(1) = 24
    /\ FooterOffset(2) = 24 + Len(EncodedField(1))
    /\ FooterId(2) = StringHash(named[2].name)

\* C9: on success the writer holds the 24-byte header, then the field
\* payload, then the schema footer; TotalLength is the number of bytes
\* emitted and SchemaOffset is 24 + the payload length.
C9_HeaderSelfDescription ==
    WriteSucceeded =>
        /\ Len(writer) = 24 + Len(Payload) + 8 * Len(named)
        /\ SubSeq(writer, 1, 8) = <<TypeCode_ComplexObj, 1>> \o write_u16(FLAG_USER_TYPE + FLAG_HAS_SCHEMA) \o write_i32(type_id)
        /\ SubSeq(writer, 25, 24 + Len(Payload)) = Payload
        /\ SubSeq(writer, 25 + Len(Payload), Len(writer)) = schema
        /\ Len(schema) = 8 * Len(named)
        /\ i32_at(writer, 12) = Len(writer)
        /\ i32_at(writer, 20) = 24 + Len(Payload)

C9_Witness ==
    /\ WriteSucceeded
    /\ Len(Payload) > 0
    /\ i32_at(writer, 12) = Len(writer)
    /\ i32_at(writer, 20) = 24 + Len(Payload)
    /\ i32_at(writer, 20) < i32_at(writer, 12)

\* C10: a decode with the Null type code returns Ok(None) and leaves the
\* reader where it was, whatever bytes follow.
C10_NullSentinel ==
    (DecodeDone /\ type_code = TypeCode_Null)
    => /\ rres = OkNone
       /\ rpos = rstart

C10_Witness ==
    /\ DecodeDone /\ type_code = TypeCode_Null
    /\ rres = OkNone
    /\ rpos = rstart
    /\ rpos < Len(reader)

\* the codec of a field has failed in write()
FieldEncoderFailed ==
    /\ wpc = "done" /\ wres.tag = "Err"
    /\ wi >= 2
    /\ self[wi - 1].tag = "Bad"

\* type code, version, flags and type identifier as write() emits them
HeaderPrefix ==
    <<TypeCode_ComplexObj, 1>> \o write_u16(FLAG_USER_TYPE + FLAG_HAS_SCHEMA)
        \o write_i32(type_id)

\* C12 as stated: the writer receives no header byte until every field has
\* been encoded into the buffers, so it has received nothing when the codec
\* of a field fails.
C12_Original ==
    (wpc = "fields" \/ FieldEncoderFailed) => writer = <<>>

\* C12 amended: until every field has been encoded the writer has received
\* the first 8 header bytes (type code, version, flags, type identifier) and
\* nothing else, and these 8 bytes are what it holds when the codec of a
\* field fails.
C12_PrefixBeforeFields ==
    (wpc = "fields" \/ FieldEncoderFailed) => writer = HeaderPrefix

C12_Witness ==
    /\ FieldEncoderFailed
    /\ Len(writer) = 8
    /\ writer = HeaderPrefix
    /\ Len(schema) >= 8

\* the bytes of the first k decoded field values in the stream
RECURSIVE DecodedLen(_)
DecodedLen(k) ==
    IF k = 0 THEN 0 ELSE DecodedLen(k - 1) + field_size(named[k].ty, out[k])

\* the object that write() produced lies in the stream at the type code read
WrittenObjectAtStart ==
    /\ Len(reader) >= rstart - 1 + Len(writer)
    /\ SubSeq(reader, rstart, rstart - 1 + Len(writer)) = writer

\* C13: a decode reads, after the type code, 1 version byte, 2 flag bytes,
\* the 4 bytes of the type identifier and 4 four-byte values (23 bytes), then
\* the field values in declaration order, one codec call each, then exactly
\* 8 bytes per field of schema, and nothing more; decoding a written object
\* ends exactly at the end of that object, and a second copy behind it
\* decodes to the same instance.
C13_ExactConsumption ==
    /\ (rpc = "flags" => rpos = rstart + 1)
    /\ (rpc = "type_id" => rpos = rstart + 3)
    /\ (rpc = "header" => rpos = rstart + 7)
    /\ (rpc = "fields" =>
            /\ Len(out) = ri - 1
            /\ codec_calls = ri - 1
            /\ rpos = rstart + 23 + DecodedLen(Len(out)))
    /\ (DecodeDone /\ rres.tag = "Some" =>
            /\ Len(out) = Len(named)
            /\ codec_calls = Len(named)
            /\ rpos = rstart + 23 + DecodedLen(Len(named)) + 8 * Len(named))
    /\ (DecodeDone /\ rres.tag = "Some" /\ WrittenObjectAtStart =>
            /\ rpos = rstart - 1 + Len(writer)
            /\ rres = OkSome(self))

C13_Witness ==
    /\ DecodeDone
    /\ reader = writer \o writer
    /\ rstart = Len(writer) + 1
    /\ Len(self) >= 2
    /\ rres = OkSome(self)
    /\ rpos = Len(reader)

SchemaExpected(r) ==
    r.tag = "Err" /\ r.msg = "Serialized object schema expected!"
CompactFooterUnsupported(r) ==
    r.tag = "Err" /\ r.msg = "Compact footer is not supported!"
OffsetWidthUnsupported(r) ==
    r.tag = "Err" /\ r.msg = "Schema offset=4 is expected!"

\* C14: when the flags are read with a non-null type code, an unset
\* HasSchema bit gives the schema-expectation error whatever the other bits
\* are; otherwise a set CompactFooter bit gives its error; otherwise a set
\* offset-width bit gives its error; otherwise none of the three errors is
\* returned.  Each of the three errors leaves the reader just behind the
\* version byte and the two flag bytes.
C14_SchemaExpectation ==
    (DecodeDone /\ FlagsWereRead) =>
        IF ~HasSchemaSet(FlagsRead)
        THEN SchemaExpected(rres) /\ rpos = rstart + 3
        ELSE IF CompactFooterSet(FlagsRead)
        THEN CompactFooterUnsupported(rres) /\ rpos = rstart + 3
        ELSE IF OffsetOneByteSet(FlagsRead) \/ OffsetTwoBytesSet(FlagsRead)
        THEN OffsetWidthUnsupported(rres) /\ rpos = rstart + 3
        ELSE /\ ~SchemaExpected(rres)
             /\ ~CompactFooterUnsupported(rres)
             /\ ~OffsetWidthUnsupported(rres)

C14_Witness ==
    /\ DecodeDone /\ FlagsWereRead
    /\ ~HasSchemaSet(FlagsRead)
    /\ CompactFooterSet(FlagsRead)
    /\ OffsetTwoBytesSet(FlagsRead)
    /\ SchemaExpected(rres)
    /\ rpos = rstart + 3

\* the stream is the written object in everything but the flags, the type
\* identifier, the four header values behind it and the schema entries
ValidatedPartsAsWritten ==
    /\ rstart = 1
    /\ Len(reader) = Len(writer)
    /\ reader[2] = writer[2]
    /\ \A i \in 25..(24 + Len(Payload)) : reader[i] = writer[i]

\* the header values and schema entries of the stream are not the written ones
UnvalidatedPartsDiffer ==
    /\ \E i \in 9..24 : reader[i] # writer[i]
    /\ \E i \in (25 + Len(Payload))..Len(writer) : reader[i] # writer[i]

\* the first field of the instance that was written as null, 0 if none
RECURSIVE FirstAbsentFrom(_)
FirstAbsentFrom(i) ==
    IF i > Len(self) THEN 0
    ELSE IF self[i].tag = "Null" THEN i
    ELSE FirstAbsentFrom(i + 1)

\* result and reader position of a decode, from the type code, the flags,
\* the type identifier and the field payload alone
OutcomeFromValidatedParts ==
    IF type_code = TypeCode_Null THEN [res |-> OkNone, pos |-> 1]
    ELSE IF ~HasSchemaSet(FlagsRead)
    THEN [res |-> ErrMsg("Serialized object schema expected!"), pos |-> 4]
    ELSE IF CompactFooterSet(FlagsRead)
    THEN [res |-> ErrMsg("Compact footer is not supported!"), pos |-> 4]
    ELSE IF OffsetOneByteSet(FlagsRead) \/ OffsetTwoBytesSet(FlagsRead)
    THEN [res |-> ErrMsg("Schema offset=4 is expected!"), pos |-> 4]
    ELSE IF TypeIdRead # type_id
    THEN [res |-> ErrTypeId(type_id, TypeIdRead), pos |-> 8]
    ELSE IF FirstAbsentFrom(1) = 0
    THEN [res |-> OkSome(self), pos |-> Len(writer)]
    ELSE [res |-> ResPanic, pos |-> 24 + Len(PayloadUpTo(FirstAbsentFrom(1)))]

\* C15: the result of a decode and the number of bytes it consumes are
\* determined by the type code, the flags, the type identifier and the field
\* payload of the stream: streams that differ only in hash code, length,
\* schema id, schema offset or the schema entries decode alike.
C15_UnvalidatedValues ==
    (DecodeDone /\ ValidatedPartsAsWritten) =>
        /\ rres = OutcomeFromValidatedParts.res
        /\ rpos = OutcomeFromValidatedParts.pos

C15_Witness ==
    /\ DecodeDone
    /\ ValidatedPartsAsWritten
    /\ UnvalidatedPartsDiffer
    /\ Len(self) >= 1
    /\ rres = OkSome(self)
    /\ rpos = Len(writer)

\* the errors that read_unwrapped returns: a failed read, the three flag
\* errors and the type identifier mismatch
HeaderParsingError(r) ==
    \/ r = ErrIo
    \/ SchemaExpected(r)
    \/ UnsupportedFeature(r)
    \/ TypeIdentifierMismatch(r)

\* the stream is the written object behind its first byte
WrittenBehindTypeCode ==
    /\ rstart = 1
    /\ Len(reader) = Len(writer)
    /\ \A i \in 2..Len(writer) : reader[i] = writer[i]

\* C16: a decode entered with a type code other than Null never returns
\* None and never fails because of the type code: it reads the version and
\* the flags when the stream holds them, its errors are those of parsing the
\* header and the fields, and the written object behind a type code that
\* does not denote a complex object decodes to the instance.
C16_TypeCodeHandling ==
    (DecodeDone /\ type_code # TypeCode_Null) =>
        /\ rres # OkNone
        /\ (FlagsWereRead => rpos >= rstart + 3)
        /\ (rres.tag = "Err" => HeaderParsingError(rres))
        /\ (WrittenBehindTypeCode /\ FirstAbsentFrom(1) = 0 => rres = OkSome(self))

C16_Witness ==
    /\ DecodeDone
    /\ type_code = TypeCode_Byte
    /\ WrittenBehindTypeCode
    /\ Len(self) >= 1
    /\ rres = OkSome(self)

====
